---- MODULE Spec2Model ----
(***************************************************************************)
(* Model of basecouch's auth.go: the User record, its validation and       *)
(* password check, the channel authorization checks, and the Authenticator *)
(* that loads, saves and deletes users in a bucket.                        *)
(*                                                                         *)
(* Go pointers (to User, PasswordHash, string; the ChannelMap markers) are *)
(* sequences of length at most one: Nil is <<>>, Ref(v) is <<v>>.          *)
(* Strings that the code inspects by character (user names) are sequences  *)
(* of one-character strings.                                               *)
(***************************************************************************)
EXTENDS Integers, Sequences, FiniteSets, TLC

VARIABLES store, last, guestSaved, pending, authz

vars == <<store, last, guestSaved, pending, authz>>

----------------------------------------------------------------------------
(* Bounds and input pools *)

NumSalts == 2
MaxChans == 2
MaxList == 3

Salts == 1..NumSalts

Usernames == { <<>>, <<"b", "_", "2">>, <<"b", " ", "2">> }

\* Passwords tried at login, and the plaintexts callers save
Passwords == { "", "p", "q" }

SavedPasswords == { "", "p" }

Channels == { "*", "x", "y" }

\* Channels a request or a document names; "z" is granted to no user
RequestChannels == Channels \cup { "z" }

SavedChannelLists == { <<"*">>, <<"x">> }

RECURSIVE SeqsUpTo(_, _)
SeqsUpTo(S, n) ==
    IF n = 0 THEN { <<>> }
    ELSE LET shorter == SeqsUpTo(S, n - 1)
         IN  shorter \cup { Append(s, x) : s \in shorter, x \in S }

----------------------------------------------------------------------------
(* Pointers *)

Nil == <<>>
Ref(v) == <<v>>
Deref(p) == p[1]

----------------------------------------------------------------------------
(* Errors *)

NoError == [type |-> "nil", status |-> 0, message |-> "", detail |-> <<>>]

HTTPError(status, message, detail) ==
    [type |-> "HTTPError", status |-> status, message |-> message, detail |-> detail]

StoreError(kind) ==
    [type |-> "bucket", status |-> 0, message |-> kind, detail |-> <<>>]

StatusBadRequest == 400
StatusUnauthorized == 401
StatusForbidden == 403

----------------------------------------------------------------------------
(* The password hash collaborator: a salted digest.  The digest of a       *)
(* password under a salt is modelled as the pair itself, so two digests    *)
(* agree only for the same salt and the same password.                     *)

Digest(salt, password) == <<salt, password>>

PasswordHashNew(password, salt) ==
    Ref([Salt |-> salt, Hash |-> Digest(salt, password)])

EqualToPassword(hash, password) ==
    Deref(hash).Hash = Digest(Deref(hash).Salt, password)

\* The hashes a caller puts into a record directly
PasswordHashes == { PasswordHashNew("p", 1) }

----------------------------------------------------------------------------
(* User *)

User(name, hash, channels, password) ==
    [Name |-> name, PasswordHash |-> hash, Channels |-> channels, Password |-> password]

WordChars ==
    { "a", "b", "c", "d", "e", "f", "g", "h", "i", "j", "k", "l", "m",
      "n", "o", "p", "q", "r", "s", "t", "u", "v", "w", "x", "y", "z",
      "A", "B", "C", "D", "E", "F", "G", "H", "I", "J", "K", "L", "M",
      "N", "O", "P", "Q", "R", "S", "T", "U", "V", "W", "X", "Y", "Z",
      "0", "1", "2", "3", "4", "5", "6", "7", "8", "9", "_" }

\* regexp.MatchString(`^\w*$`, name)
MatchWord(name) == \A i \in 1..Len(name) : name[i] \in WordChars

Validate_NoPasswordCheck(user) ==
    IF ~MatchWord(user.Name)
    THEN HTTPError(StatusBadRequest, "Invalid username %q", user.Name)
    ELSE NoError

Validate(user) ==
    IF ~MatchWord(user.Name)
    THEN HTTPError(StatusBadRequest, "Invalid username %q", user.Name)
    ELSE IF (user.Name = <<>>) # (user.PasswordHash = Nil)
    THEN HTTPError(StatusBadRequest, "Invalid password", <<>>)
    ELSE NoError

Authenticate(user, password) ==
    IF user.PasswordHash = Nil
    THEN password = ""
    ELSE EqualToPassword(user.PasswordHash, password)

SetPassword(user, password, salt) ==
    IF password = ""
    THEN [user EXCEPT !.PasswordHash = Nil]
    ELSE [user EXCEPT !.PasswordHash = PasswordHashNew(password, salt)]

----------------------------------------------------------------------------
(* The bucket: documents by key.  A document is the JSON object of a User: *)
(* a function from the field names present to their values.                *)

docIDForUser(username) == <<"user:">> \o username

EmptyDoc == [k \in {} |-> <<>>]

Field(present, key, value) == IF present THEN key :> value ELSE EmptyDoc

\* json.Marshal(user): name, passwordhash and password are omitempty
Marshal(user) ==
    Field(user.Name # <<>>, "name", user.Name)
    @@ Field(user.PasswordHash # Nil, "passwordhash", Deref(user.PasswordHash))
    @@ Field(TRUE, "channels", user.Channels)
    @@ Field(user.Password # Nil, "password", Deref(user.Password))

\* json.Unmarshal(doc, &user)
Unmarshal(doc) ==
    User(IF "name" \in DOMAIN doc THEN doc["name"] ELSE <<>>,
         IF "passwordhash" \in DOMAIN doc THEN Ref(doc["passwordhash"]) ELSE Nil,
         IF "channels" \in DOMAIN doc THEN doc["channels"] ELSE <<>>,
         IF "password" \in DOMAIN doc THEN Ref(doc["password"]) ELSE Nil)

\* bucket.Get(key, &user): the user pointer stays nil unless a document is read
BucketGet(st, key, fails) ==
    IF fails THEN [user |-> Nil, err |-> StoreError("failure")]
    ELSE IF key \notin DOMAIN st THEN [user |-> Nil, err |-> StoreError("not found")]
    ELSE [user |-> Ref(Unmarshal(st[key])), err |-> NoError]

BucketSet(st, key, doc) ==
    [k \in DOMAIN st \cup {key} |-> IF k = key THEN doc ELSE st[k]]

BucketDelete(st, key) ==
    [k \in DOMAIN st \ {key} |-> st[k]]

----------------------------------------------------------------------------
(* Authenticator *)

GuestUser(username) == User(username, Nil, <<"*">>, Nil)

GetUser_GuestWhenEmptyName(st, username, fails) ==
    LET got == BucketGet(st, docIDForUser(username), fails)
    IN  IF username = <<>>
        THEN [user |-> Ref(GuestUser(username)), err |-> NoError, synth |-> TRUE]
        ELSE [user |-> got.user, err |-> got.err, synth |-> FALSE]

GetUser(st, username, fails) ==
    LET got == BucketGet(st, docIDForUser(username), fails)
    IN  IF got.user = Nil /\ username = <<>>
        THEN [user |-> Ref(GuestUser(username)), err |-> NoError, synth |-> TRUE]
        ELSE [user |-> got.user, err |-> got.err, synth |-> FALSE]

\* The user after lines 61-64 of SaveUser
ConsumePassword(user, salt) ==
    IF user.Password # Nil
    THEN [SetPassword(user, Deref(user.Password), salt) EXCEPT !.Password = Nil]
    ELSE user

SaveUser_KeepPassword(st, user, salt, fails) ==
    LET u1  == IF user.Password # Nil
               THEN SetPassword(user, Deref(user.Password), salt)
               ELSE user
        err == Validate(u1)
    IN  IF err # NoError THEN [store |-> st, user |-> u1, err |-> err]
        ELSE IF fails THEN [store |-> st, user |-> u1, err |-> StoreError("failure")]
        ELSE [store |-> BucketSet(st, docIDForUser(u1.Name), Marshal(u1)),
              user |-> u1, err |-> NoError]

SaveUser_SetBeforeValidate(st, user, salt, fails) ==
    LET u1  == ConsumePassword(user, salt)
        err == Validate(u1)
        st1 == IF fails THEN st ELSE BucketSet(st, docIDForUser(u1.Name), Marshal(u1))
    IN  IF err # NoError THEN [store |-> st1, user |-> u1, err |-> err]
        ELSE IF fails THEN [store |-> st, user |-> u1, err |-> StoreError("failure")]
        ELSE [store |-> st1, user |-> u1, err |-> NoError]

\* store: the bucket afterwards; user: the caller's record afterwards
SaveUser(st, user, salt, fails) ==
    LET u1  == ConsumePassword(user, salt)
        err == Validate(u1)
    IN  IF err # NoError THEN [store |-> st, user |-> u1, err |-> err]
        ELSE IF fails THEN [store |-> st, user |-> u1, err |-> StoreError("failure")]
        ELSE [store |-> BucketSet(st, docIDForUser(u1.Name), Marshal(u1)),
              user |-> u1, err |-> NoError]

DeleteUser(st, username, fails) ==
    IF fails THEN [store |-> st, err |-> StoreError("failure")]
    ELSE IF docIDForUser(username) \notin DOMAIN st
    THEN [store |-> st, err |-> StoreError("not found")]
    ELSE [store |-> BucketDelete(st, docIDForUser(username)), err |-> NoError]

AuthenticateUser(st, username, password, fails) ==
    LET got == GetUser(st, username, fails)
    IN  IF got.user = Nil \/ ~Authenticate(Deref(got.user), password)
        THEN Nil
        ELSE got.user

----------------------------------------------------------------------------
(* Channel authorization *)

stringListContains(list, str) == \E i \in 1..Len(list) : list[i] = str

unauthError(user, message, detail) ==
    IF Deref(user).Name = <<>>
    THEN HTTPError(StatusUnauthorized, "login required", <<>>)
    ELSE HTTPError(StatusForbidden, message, detail)

CanSeeChannel(user, channel) ==
    \/ user = Nil
    \/ channel = "*"
    \/ stringListContains(Deref(user).Channels, channel)
    \/ stringListContains(Deref(user).Channels, "*")

CanSeeAllChannels(user, channels) ==
    \A i \in 1..Len(channels) : CanSeeChannel(user, channels[i])

\* The loop of CanSeeAnyChannels returned true
AnyChannelSeen(user, channels) ==
    \E i \in 1..Len(channels) : CanSeeChannel(user, channels[i])

\* Line 167 reads user.Channels through a nil receiver
CanSeeAnyChannelsPanics(user, channels) ==
    ~AnyChannelSeen(user, channels) /\ user = Nil

CanSeeAnyChannels_NoWildcardFallback(user, channels) ==
    AnyChannelSeen(user, channels)

CanSeeAnyChannels(user, channels) ==
    \/ AnyChannelSeen(user, channels)
    \/ stringListContains(Deref(user).Channels, "*")

AuthorizeAllChannels_FirstForbiddenOnly(user, channels) ==
    LET forbidden == SelectSeq(channels, LAMBDA c : ~CanSeeChannel(user, c))
    IN  IF forbidden # <<>>
        THEN unauthError(user, "You are not allowed to see channels %v", <<forbidden[1]>>)
        ELSE NoError

AuthorizeAllChannels(user, channels) ==
    LET forbidden == SelectSeq(channels, LAMBDA c : ~CanSeeChannel(user, c))
    IN  IF forbidden # <<>>
        THEN unauthError(user, "You are not allowed to see channels %v", forbidden)
        ELSE NoError

AuthorizeAnyChannels(user, channels) ==
    IF ~CanSeeAnyChannels(user, channels)
    THEN unauthError(user, "You are not allowed to see this", <<>>)
    ELSE NoError

AuthorizeAnyDocChannels_IgnoreMarker(user, channels) ==
    IF user = Nil THEN NoError
    ELSE IF \E i \in 1..Len(Deref(user).Channels) :
               LET channel == Deref(user).Channels[i]
               IN  channel = "*" \/ channel \in DOMAIN channels
    THEN NoError
    ELSE unauthError(user, "You are not allowed to see this", <<>>)

\* channels: a ChannelMap, channel name -> marker pointer (nil: current member)
AuthorizeAnyDocChannels(user, channels) ==
    IF user = Nil THEN NoError
    ELSE IF \E i \in 1..Len(Deref(user).Channels) :
               LET channel == Deref(user).Channels[i]
               IN  \/ channel = "*"
                   \/ (channel \in DOMAIN channels /\ channels[channel] = Nil)
    THEN NoError
    ELSE unauthError(user, "You are not allowed to see this", <<>>)

----------------------------------------------------------------------------
(* The callers of the Authenticator *)

SavedUsers ==
    { User(n, h, c, p) : n \in Usernames, h \in {Nil} \cup PasswordHashes,
                         c \in SavedChannelLists,
                         p \in {Nil} \cup { Ref(q) : q \in SavedPasswords } }

\* passwordhash.New draws a salt only when SaveUser hashes a non-empty password
SaltsFor(user) ==
    IF user.Password # Nil /\ Deref(user.Password) # "" THEN Salts ELSE {1}

NoPending == [n \in Usernames |-> Nil]

Init ==
    /\ store = EmptyDoc
    /\ last = [op |-> "NewAuthenticator"]
    /\ guestSaved = FALSE
    /\ pending = NoPending
    /\ authz = [op |-> "none", done |-> FALSE]

DoSaveUser ==
    \E user \in SavedUsers, fails \in BOOLEAN : \E salt \in SaltsFor(user) :
        LET r == SaveUser(store, user, salt, fails)
        IN  /\ store' = r.store
            /\ last' = [op |-> "SaveUser", arg |-> user, after |-> r.user, err |-> r.err]
            /\ guestSaved' = (guestSaved \/ (r.err = NoError /\ r.user.Name = <<>>))
            /\ pending' = IF r.err = NoError
                          THEN [pending EXCEPT ![r.user.Name] = user.Password]
                          ELSE pending
            /\ UNCHANGED authz

DoDeleteUser ==
    \E username \in Usernames, fails \in BOOLEAN :
        LET r == DeleteUser(store, username, fails)
        IN  /\ store' = r.store
            /\ last' = [op |-> "DeleteUser", name |-> username, err |-> r.err]
            /\ pending' = IF r.err = NoError
                          THEN [pending EXCEPT ![username] = Nil]
                          ELSE pending
            /\ UNCHANGED <<guestSaved, authz>>

DoGetUser ==
    \E username \in Usernames, fails \in BOOLEAN :
        LET r == GetUser(store, username, fails)
        IN  /\ last' = [op |-> "GetUser", name |-> username, getFailed |-> fails,
                        user |-> r.user, err |-> r.err, synth |-> r.synth]
            /\ UNCHANGED <<store, guestSaved, pending, authz>>

DoAuthenticateUser ==
    \E username \in Usernames, password \in Passwords, fails \in BOOLEAN :
        /\ last' = [op |-> "AuthenticateUser", name |-> username, password |-> password,
                    getFailed |-> fails,
                    user |-> AuthenticateUser(store, username, password, fails)]
        /\ UNCHANGED <<store, guestSaved, pending, authz>>

Next ==
    \/ DoSaveUser
    \/ DoDeleteUser
    \/ DoGetUser
    \/ DoAuthenticateUser

Spec == Init /\ [][Next]_vars

----------------------------------------------------------------------------
(* The callers of the authorization checks: one call, drawn at the start,  *)
(* then applied.                                                           *)

AuthzUsers ==
    {Nil} \cup { Ref(User(<<>>, Nil, c, Nil)) : c \in SeqsUpTo(Channels, MaxChans) }
          \cup { Ref(User(<<"b", "_", "2">>, PasswordHashNew("p", 1), c, Nil)) :
                     c \in SeqsUpTo(Channels, MaxChans) }

ChannelLists == SeqsUpTo(RequestChannels, MaxList)

Removed == Ref("removed")

DocChannelKeys == { "x", "y" }

ChannelMaps ==
    UNION { [keys -> {Nil, Removed}] : keys \in SUBSET DocChannelKeys }

ListOps == { "CanSeeAllChannels", "CanSeeAnyChannels",
             "AuthorizeAllChannels", "AuthorizeAnyChannels" }

AuthzCalls ==
    { [op |-> "CanSeeChannel", user |-> u, arg |-> c, done |-> FALSE] :
          u \in AuthzUsers, c \in RequestChannels }
    \cup { [op |-> o, user |-> u, arg |-> l, done |-> FALSE] :
          o \in ListOps, u \in AuthzUsers, l \in ChannelLists }
    \cup { [op |-> "AuthorizeAnyDocChannels", user |-> u, arg |-> m, done |-> FALSE] :
          u \in AuthzUsers, m \in ChannelMaps }

AuthzInit ==
    /\ store = EmptyDoc
    /\ last = [op |-> "NewAuthenticator"]
    /\ guestSaved = FALSE
    /\ pending = NoPending
    /\ authz \in AuthzCalls

Pending(op) == authz.op = op /\ ~authz.done

Returned(value) ==
    [op |-> authz.op, user |-> authz.user, arg |-> authz.arg, done |-> TRUE,
     panic |-> FALSE, result |-> value]

Panicked ==
    [op |-> authz.op, user |-> authz.user, arg |-> authz.arg, done |-> TRUE,
     panic |-> TRUE]

DoCanSeeChannel ==
    /\ Pending("CanSeeChannel")
    /\ authz' = Returned(CanSeeChannel(authz.user, authz.arg))
    /\ UNCHANGED <<store, last, guestSaved, pending>>

DoCanSeeAllChannels ==
    /\ Pending("CanSeeAllChannels")
    /\ authz' = Returned(CanSeeAllChannels(authz.user, authz.arg))
    /\ UNCHANGED <<store, last, guestSaved, pending>>

DoCanSeeAnyChannels ==
    /\ Pending("CanSeeAnyChannels")
    /\ authz' = IF CanSeeAnyChannelsPanics(authz.user, authz.arg)
                THEN Panicked
                ELSE Returned(CanSeeAnyChannels(authz.user, authz.arg))
    /\ UNCHANGED <<store, last, guestSaved, pending>>

DoAuthorizeAllChannels ==
    /\ Pending("AuthorizeAllChannels")
    /\ authz' = Returned(AuthorizeAllChannels(authz.user, authz.arg))
    /\ UNCHANGED <<store, last, guestSaved, pending>>

DoAuthorizeAnyChannels ==
    /\ Pending("AuthorizeAnyChannels")
    /\ authz' = IF CanSeeAnyChannelsPanics(authz.user, authz.arg)
                THEN Panicked
                ELSE Returned(AuthorizeAnyChannels(authz.user, authz.arg))
    /\ UNCHANGED <<store, last, guestSaved, pending>>

DoAuthorizeAnyDocChannels ==
    /\ Pending("AuthorizeAnyDocChannels")
    /\ authz' = Returned(AuthorizeAnyDocChannels(authz.user, authz.arg))
    /\ UNCHANGED <<store, last, guestSaved, pending>>

AuthzNext ==
    \/ DoCanSeeChannel
    \/ DoCanSeeAllChannels
    \/ DoCanSeeAnyChannels
    \/ DoAuthorizeAllChannels
    \/ DoAuthorizeAnyChannels
    \/ DoAuthorizeAnyDocChannels

AuthzSpec == AuthzInit /\ [][AuthzNext]_vars

----------------------------------------------------------------------------
(* Properties of the Authenticator, checked under Spec *)

Named == <<"b", "_", "2">>

GuestKey == docIDForUser(<<>>)

Elems(seq) == { seq[i] : i \in 1..Len(seq) }

\* C1: every record held in the store has a name that is empty or made only
\* of word characters, and has no credential exactly when its name is "".
C1_StoredRecordsValid ==
    \A key \in DOMAIN store :
        LET u == Unmarshal(store[key])
        IN  /\ Elems(u.Name) \subseteq WordChars
            /\ (u.PasswordHash = Nil) <=> (u.Name = <<>>)

C1_Witness ==
    /\ GuestKey \in DOMAIN store
    /\ docIDForUser(Named) \in DOMAIN store
    /\ last.op = "SaveUser"
    /\ last.err = NoError

\* C2 as stated: once a record named "" has been saved, no later lookup of ""
\* that the store answers returns the synthesized wildcard default again.
C2_NeverDefaultAgain ==
    (guestSaved /\ last.op = "GetUser" /\ last.name = <<>> /\ ~last.getFailed)
        => ~last.synth

\* C2 amended: a lookup of "" returns the synthesized guest (channels "*", no
\* credential) while no record for "" was ever saved; after a save of "" it
\* returns the synthesized guest exactly when the bucket holds no record for
\* "" at that time (it was deleted) or the bucket's get fails, and the stored
\* record otherwise.
C2_GuestDefault ==
    (last.op = "GetUser" /\ last.name = <<>>) =>
        /\ ~guestSaved => last.synth
        /\ last.synth <=> (GuestKey \notin DOMAIN store \/ last.getFailed)
        /\ last.synth =>
              /\ Deref(last.user).Channels = <<"*">>
              /\ Deref(last.user).PasswordHash = Nil
        /\ ~last.synth => last.user = Ref(Unmarshal(store[GuestKey]))

C2_Witness ==
    /\ guestSaved
    /\ last.op = "GetUser"
    /\ last.name = <<>>
    /\ ~last.synth
    /\ Deref(last.user).Channels = <<"x">>

\* C3: for every name, a failing get of the store makes GetUser return that
\* error and no user; the synthesized guest is returned only for "" when the
\* store reports not-found; a not-found for another name is an error.
C3_StoreErrorsPropagate ==
    last.op = "GetUser" =>
        /\ last.getFailed => (last.user = Nil /\ last.err = StoreError("failure"))
        /\ last.synth =>
              (last.name = <<>> /\ ~last.getFailed /\ GuestKey \notin DOMAIN store)
        /\ (last.name # <<>> /\ ~last.getFailed
                /\ docIDForUser(last.name) \notin DOMAIN store)
              => (last.user = Nil /\ last.err = StoreError("not found"))

\* C4 as stated: a SaveUser that returns a validation error leaves the store
\* as it was and leaves the caller's record with the same PasswordHash and
\* Password as before the call.
C4_FailedSaveChangesNothing ==
    [][ (last'.op = "SaveUser" /\ last'.err.status = StatusBadRequest) =>
            /\ store' = store
            /\ last'.after.PasswordHash = last'.arg.PasswordHash
            /\ last'.after.Password = last'.arg.Password ]_vars

\* C4 amended: a SaveUser that returns a validation error leaves the store as
\* it was; the caller's record is unchanged when it carried no Password, and
\* otherwise has its Password cleared and its PasswordHash replaced by the
\* hash of that Password (nil when the Password is ""), name and channels kept.
C4_FailedSaveEffect ==
    [][ (last'.op = "SaveUser" /\ last'.err.status = StatusBadRequest) =>
            /\ store' = store
            /\ last'.arg.Password = Nil => last'.after = last'.arg
            /\ last'.arg.Password # Nil =>
                  /\ last'.after.Password = Nil
                  /\ last'.after.Name = last'.arg.Name
                  /\ last'.after.Channels = last'.arg.Channels
                  /\ IF Deref(last'.arg.Password) = ""
                     THEN last'.after.PasswordHash = Nil
                     ELSE /\ last'.after.PasswordHash # Nil
                          /\ EqualToPassword(last'.after.PasswordHash,
                                             Deref(last'.arg.Password)) ]_vars

C4_Witness ==
    /\ last.op = "SaveUser"
    /\ last.err.status = StatusBadRequest
    /\ last.arg.Password # Nil
    /\ last.after.PasswordHash # last.arg.PasswordHash
    /\ store # EmptyDoc

\* C5: AuthenticateUser returns nil when the lookup hits a store error, when
\* the user is unknown or when the password is wrong; a user it returns
\* passes Authenticate with the password; the store is never changed.
C5_AuthenticateNormalizes ==
    [][ last'.op = "AuthenticateUser" =>
            /\ store' = store
            /\ last'.getFailed => last'.user = Nil
            /\ (last'.name # <<>> /\ docIDForUser(last'.name) \notin DOMAIN store)
                  => last'.user = Nil
            /\ last'.user # Nil => Authenticate(Deref(last'.user), last'.password) ]_vars

\* C6: after a successful save of a record carrying a plaintext Password p,
\* and until the next save or delete of that name, the stored document has no
\* password field, every user GetUser returns for that name has no Password,
\* and Authenticate of the reloaded user with p succeeds.
C6_PasswordRoundTrip ==
    /\ \A n \in Usernames :
          pending[n] # Nil =>
              /\ docIDForUser(n) \in DOMAIN store
              /\ "password" \notin DOMAIN store[docIDForUser(n)]
              /\ Authenticate(Unmarshal(store[docIDForUser(n)]), Deref(pending[n]))
    /\ (last.op = "GetUser" /\ last.user # Nil) =>
          /\ Deref(last.user).Password = Nil
          /\ pending[last.name] # Nil =>
                Authenticate(Deref(last.user), Deref(pending[last.name]))

C6_Witness ==
    /\ pending[Named] = Ref("p")
    /\ last.op = "GetUser"
    /\ last.name = Named
    /\ last.user # Nil

----------------------------------------------------------------------------
(* Properties of the authorization checks, checked under AuthzSpec *)

CanSeeOps == { "CanSeeChannel", "CanSeeAllChannels", "CanSeeAnyChannels" }

AuthorizeOps == { "AuthorizeAllChannels", "AuthorizeAnyChannels",
                  "AuthorizeAnyDocChannels" }

\* C7: with a nil user every authorization operation returns, without a
\* panic: true from the CanSee operations, no error from the Authorize ones.
C7_NilUserAlwaysGranted ==
    (authz.done /\ authz.user = Nil) =>
        /\ ~authz.panic
        /\ authz.op \in CanSeeOps => authz.result = TRUE
        /\ authz.op \in AuthorizeOps => authz.result = NoError

\* "*" is in the user's channels, or CanSeeChannel holds for some channel of
\* the list
AnyGranted(user, channels) ==
    \/ "*" \in Elems(Deref(user).Channels)
    \/ \E c \in Elems(channels) : CanSeeChannel(user, c)

\* C8: for a non-nil user CanSeeAnyChannels is true exactly when some channel
\* of the list passes CanSeeChannel or the user holds "*"; AuthorizeAnyChannels
\* succeeds exactly then.
C8_AnyChannels ==
    (authz.done /\ authz.user # Nil) =>
        /\ authz.op = "CanSeeAnyChannels" =>
              /\ ~authz.panic
              /\ authz.result <=> AnyGranted(authz.user, authz.arg)
        /\ authz.op = "AuthorizeAnyChannels" =>
              /\ ~authz.panic
              /\ (authz.result = NoError) <=> AnyGranted(authz.user, authz.arg)

C8_Witness ==
    /\ authz.done
    /\ authz.op = "CanSeeAnyChannels"
    /\ authz.user # Nil
    /\ authz.arg = <<"z">>
    /\ Deref(authz.user).Channels = <<"x", "*">>
    /\ authz.result = TRUE

\* The document currently belongs to a channel the user holds, or the user
\* holds "*"
DocGranted(user, channels) ==
    \/ "*" \in Elems(Deref(user).Channels)
    \/ \E c \in Elems(Deref(user).Channels) :
          c \in DOMAIN channels /\ channels[c] = Nil

RECURSIVE NotSeen(_, _)
NotSeen(user, channels) ==
    IF channels = <<>> THEN <<>>
    ELSE (IF CanSeeChannel(user, Head(channels)) THEN <<>> ELSE <<Head(channels)>>)
         \o NotSeen(user, Tail(channels))

====
